---------------------------- MODULE Spec2Model ----------------------------
(***************************************************************************)
(* BasicOAuthProvider (vscode-docker-registries, auth/BasicOAuthProvider)  *)
(* and httpRequest (utils/httpRequest.ts) as a state machine.              *)
(*                                                                         *)
(* A JavaScript string is modelled as a sequence of one-character strings, *)
(* so that the regular expression of fallback, String.split, Array.join    *)
(* and the base64 encoding are computed character by character.            *)
(***************************************************************************)
EXTENDS Integers, Sequences, FiniteSets, TLC

(***************************************************************************)
(* Characters                                                              *)
(***************************************************************************)

\* The printable ASCII characters, code 32 (space) to 126 (~), in code order
\* (code 96, the grave accent, is written "grave": the lexer rejects it in a string).
Ascii ==
  << " ", "!", "\"", "#", "$", "%", "&", "'", "(", ")", "*", "+", ",", "-", ".", "/",
     "0", "1", "2", "3", "4", "5", "6", "7", "8", "9", ":", ";", "<", "=", ">", "?",
     "@", "A", "B", "C", "D", "E", "F", "G", "H", "I", "J", "K", "L", "M", "N", "O",
     "P", "Q", "R", "S", "T", "U", "V", "W", "X", "Y", "Z", "[", "\\", "]", "^", "_",
     "grave", "a", "b", "c", "d", "e", "f", "g", "h", "i", "j", "k", "l", "m", "n", "o",
     "p", "q", "r", "s", "t", "u", "v", "w", "x", "y", "z", "{", "|", "}", "~" >>

\* The characters of the model.
Chars == { Ascii[i] : i \in 1..Len(Ascii) } \cup { "\t" }

\* The byte Buffer.from(str) holds for an ASCII character (UTF-8 = ASCII here).
CharCode ==
  [c \in Chars |-> IF c = "\t" THEN 9
                   ELSE 31 + (CHOOSE i \in 1..Len(Ascii) : Ascii[i] = c)]

\* The regular expression's i flag: letters compare by their lower case.
Lower ==
  [c \in Chars |-> IF CharCode[c] >= 65 /\ CharCode[c] <= 90
                   THEN Ascii[CharCode[c] + 32 - 31] ELSE c]

\* The regular expression's \s, over the characters of the model.
IsSpace(c) == c \in {" ", "\t"}

\* The base64 alphabet of Buffer.toString('base64').
B64Chars ==
  << "A", "B", "C", "D", "E", "F", "G", "H", "I", "J", "K", "L", "M", "N", "O", "P",
     "Q", "R", "S", "T", "U", "V", "W", "X", "Y", "Z", "a", "b", "c", "d", "e", "f",
     "g", "h", "i", "j", "k", "l", "m", "n", "o", "p", "q", "r", "s", "t", "u", "v",
     "w", "x", "y", "z", "0", "1", "2", "3", "4", "5", "6", "7", "8", "9", "+", "/" >>

(***************************************************************************)
(* Strings                                                                 *)
(***************************************************************************)

\* Array.prototype.join(sep) on an array of strings.
RECURSIVE Join(_, _)
Join(parts, sep) ==
  IF Len(parts) = 0 THEN << >>
  ELSE IF Len(parts) = 1 THEN parts[1]
  ELSE parts[1] \o sep \o Join(Tail(parts), sep)

\* String.prototype.split(' '): the pieces between single spaces, empty pieces kept.
RECURSIVE SplitFrom(_, _, _)
SplitFrom(s, i, cur) ==
  IF i > Len(s) THEN << cur >>
  ELSE IF s[i] = " " THEN << cur >> \o SplitFrom(s, i + 1, << >>)
  ELSE SplitFrom(s, i + 1, Append(cur, s[i]))

Split(s) == SplitFrom(s, 1, << >>)

\* Buffer.from(str): the bytes of the string.
Bytes(s) == [i \in 1..Len(s) |-> CharCode[s[i]]]

\* Buffer.toString('base64'): three bytes to four characters, '=' padding.
RECURSIVE ToBase64(_)
ToBase64(b) ==
  IF Len(b) = 0 THEN << >>
  ELSE IF Len(b) = 1 THEN
    << B64Chars[(b[1] \div 4) + 1], B64Chars[((b[1] % 4) * 16) + 1], "=", "=" >>
  ELSE IF Len(b) = 2 THEN
    << B64Chars[(b[1] \div 4) + 1],
       B64Chars[((b[1] % 4) * 16 + (b[2] \div 16)) + 1],
       B64Chars[((b[2] % 16) * 4) + 1], "=" >>
  ELSE
    << B64Chars[(b[1] \div 4) + 1],
       B64Chars[((b[1] % 4) * 16 + (b[2] \div 16)) + 1],
       B64Chars[((b[2] % 16) * 4 + (b[3] \div 64)) + 1],
       B64Chars[(b[3] % 64) + 1] >>
    \o ToBase64(SubSeq(b, 4, Len(b)))

\* A variant of getBasicAuthToken with one slip: the colon is missing.
getBasicAuthTokenNoColon(username, secret) ==
  ToBase64(Bytes(username \o secret))

\* BasicOAuthProvider.getBasicAuthToken
getBasicAuthToken(username, secret) ==
  ToBase64(Bytes(username \o << ":" >> \o secret))

(***************************************************************************)
(* The regular expression of fallback                                      *)
(*   /Bearer\s+realm="(?<realm>[^"]+)",\s*service="(?<service>[^"]+)",     *)
(*    \s*scope="(?<scope>[^"]+)"/i                                         *)
(* Each quantified part is followed by a character it cannot match (\s by  *)
(* a letter, [^"] by the quote), so matching from one start position never *)
(* backtracks; exec tries the start positions from left to right.          *)
(***************************************************************************)

kwBearer == << "B", "e", "a", "r", "e", "r" >>
kwRealm == << "r", "e", "a", "l", "m", "=", "\"" >>
kwComma == << "\"", "," >>
kwServiceOpen == << "s", "e", "r", "v", "i", "c", "e", "=", "\"" >>
kwScopeOpen == << "s", "c", "o", "p", "e", "=", "\"" >>

\* A literal of the pattern at position i (letters by lower case): the position
\* after it, or 0.
MatchLit(h, i, lit) ==
  IF /\ i >= 1
     /\ i + Len(lit) - 1 <= Len(h)
     /\ \A k \in 1..Len(lit) : Lower[h[i + k - 1]] = Lower[lit[k]]
  THEN i + Len(lit)
  ELSE 0

\* \s* from position i: the first position that holds no white space.
RECURSIVE SkipSpaces(_, _)
SkipSpaces(h, i) ==
  IF i <= Len(h) /\ IsSpace(h[i]) THEN SkipSpaces(h, i + 1) ELSE i

\* [^"]+ from position i: the first position that holds a quote (Len(h) + 1 if none).
RECURSIVE SkipNonQuotes(_, _)
SkipNonQuotes(h, i) ==
  IF i <= Len(h) /\ h[i] # "\"" THEN SkipNonQuotes(h, i + 1) ELSE i

NoMatch == [matched |-> FALSE]

\* The pattern matched with its first character at position i.
MatchAt(h, i) ==
  LET b == MatchLit(h, i, kwBearer)
      s1 == SkipSpaces(h, b)
      r == MatchLit(h, s1, kwRealm)
      rEnd == SkipNonQuotes(h, r)
      c1 == MatchLit(h, rEnd, kwComma)
      s2 == SkipSpaces(h, c1)
      v == MatchLit(h, s2, kwServiceOpen)
      vEnd == SkipNonQuotes(h, v)
      c2 == MatchLit(h, vEnd, kwComma)
      s3 == SkipSpaces(h, c2)
      o == MatchLit(h, s3, kwScopeOpen)
      oEnd == SkipNonQuotes(h, o)
  IN  IF b = 0 \/ s1 = b THEN NoMatch
      ELSE IF r = 0 \/ rEnd = r THEN NoMatch
      ELSE IF c1 = 0 THEN NoMatch
      ELSE IF v = 0 \/ vEnd = v THEN NoMatch
      ELSE IF c2 = 0 THEN NoMatch
      ELSE IF o = 0 \/ oEnd = o \/ oEnd > Len(h) THEN NoMatch
      ELSE [matched |-> TRUE,
            groups |-> [realm |-> SubSeq(h, r, rEnd - 1),
                        service |-> SubSeq(h, v, vEnd - 1),
                        scope |-> SubSeq(h, o, oEnd - 1)]]

\* wwwAuthenticateHeaderRegex.exec(header): the leftmost match.
RECURSIVE ExecFrom(_, _)
ExecFrom(h, i) ==
  IF i > Len(h) THEN NoMatch
  ELSE LET m == MatchAt(h, i)
       IN  IF m.matched THEN m ELSE ExecFrom(h, i + 1)

RegExpExec(h) == ExecFrom(h, 1)

(***************************************************************************)
(* JavaScript values                                                       *)
(***************************************************************************)

Undefined == [t |-> "undefined"]
Null == [t |-> "null"]
Str(s) == [t |-> "string", s |-> s]
Arr(a) == [t |-> "array", a |-> a]

\* !v for a string | undefined | null value.
Falsy(v) == v.t \in {"undefined", "null"} \/ (v.t = "string" /\ v.s = << >>)

\* vscode.l10n.t(template, arg) and the Error that carries it.
ErrorOf(name, template, arg) ==
  [name |-> name, message |-> [template |-> template, arg |-> arg]]

Return(v) == [kind |-> "return", value |-> v]
Throw(e) == [kind |-> "throw", error |-> e]
None == [kind |-> "none"]

(***************************************************************************)
(* Inputs                                                                  *)
(***************************************************************************)

\* A WWW-Authenticate value written out from its parts.
Challenge(scheme, ws1, realm, ws2, service, ws3, scope) ==
  scheme \o ws1 \o kwRealm \o realm \o kwComma \o ws2
         \o kwServiceOpen \o service \o kwComma \o ws3
         \o kwScopeOpen \o scope \o << "\"" >>

\* The headers the registry client hands to fallback: what each is made of
\* (bearer: whether it is a Bearer challenge with its three quoted fields;
\* scopes: the scopes its scope field lists).
Samples ==
  { [text |-> Challenge(kwBearer, << " " >>, << "r", "a" >>, << >>,
                        << "s", "a" >>, << >>, << "x" >>),
     bearer |-> TRUE, realm |-> << "r", "a" >>, service |-> << "s", "a" >>,
     scope |-> << "x" >>, scopes |-> << << "x" >> >>],
    [text |-> Challenge(<< "b", "e", "a", "r", "e", "r" >>, << " ", " " >>,
                        << "r", "b" >>, << " " >>, << "s", "b" >>, << " " >>,
                        << "x", " ", "z" >>),
     bearer |-> TRUE, realm |-> << "r", "b" >>, service |-> << "s", "b" >>,
     scope |-> << "x", " ", "z" >>, scopes |-> << << "x" >>, << "z" >> >>],
    [text |-> << "B", "a", "s", "i", "c", " " >> \o kwRealm \o << "r", "a", "\"" >>,
     bearer |-> FALSE, realm |-> << >>, service |-> << >>, scope |-> << >>,
     scopes |-> << >>],
    [text |-> kwBearer \o << " ", "r", "e", "a", "l", "m", "=", "r", "a", "," >>
                       \o kwServiceOpen \o << "s", "a" >> \o kwComma
                       \o kwScopeOpen \o << "x", "\"" >>,
     bearer |-> FALSE, realm |-> << >>, service |-> << >>, scope |-> << >>,
     scopes |-> << >>] }

Headers == { s.text : s \in Samples }

SampleOf(h) == CHOOSE s \in Samples : s.text = h

\* Header values of every shape, for fallback called on its own: what each is
\* made of and its shape (kind).  Well-formed ones differ in the case of the
\* scheme keyword, the whitespace after the commas and the spaces within the
\* scope; the others miss the quotes of a field, miss a field, carry another
\* scheme, carry a longer scheme token ending in Bearer, or hold a Bearer
\* challenge after another challenge.
WellFormed(scheme, realm, ws2, service, ws3, scope, scopes) ==
  [text |-> Challenge(scheme, << " " >>, realm, ws2, service, ws3, scope),
   kind |-> "valid", realm |-> realm, service |-> service, scope |-> scope,
   scopes |-> scopes]

Malformed(text, kind) ==
  [text |-> text, kind |-> kind, realm |-> << >>, service |-> << >>,
   scope |-> << >>, scopes |-> << >>]

kwBasicRealm == << "B", "a", "s", "i", "c", " " >> \o kwRealm
kwPlain == Challenge(kwBearer, << " " >>, << "r", "a" >>, << >>,
                     << "s", "a" >>, << >>, << "x" >>)

ParseSamples ==
  { WellFormed(<< "B", "E", "A", "R", "E", "R" >>, << "r", ":" >>, << >>,
               << "s", "." >>, << >>, << "x" >>, << << "x" >> >>),
    WellFormed(<< "b", "E", "a", "R", "e", "r" >>, << "r", "b" >>, << " ", " " >>,
               << "s", "b" >>, << " " >>, << "x", " ", " ", "z" >>,
               << << "x" >>, << >>, << "z" >> >>),
    WellFormed(kwBearer, << "r", " ", "=", "," >>, << " " >>,
               << "S" >>, << " " >>, << "a", ":", "b", " ", "c" >>,
               << << "a", ":", "b" >>, << "c" >> >>),
    WellFormed(kwBearer, << "R" >>, << >>, << "s", " " >>, << " " >>,
               << " ", "x" >>, << << >>, << "x" >> >>),
    Malformed(kwBearer \o << " ", "r", "e", "a", "l", "m", "=", "r", "a", "," >>
                \o kwServiceOpen \o << "s", "a" >> \o kwComma
                \o kwScopeOpen \o << "x", "\"" >>, "noquotes"),
    Malformed(kwBearer \o << " " >> \o kwRealm \o << "r", "a" >> \o kwComma
                \o kwServiceOpen \o << "s", "a" >> \o kwComma
                \o << "s", "c", "o", "p", "e", "=", "x" >>, "noquotes"),
    Malformed(kwBearer \o << " " >> \o kwRealm \o << "r", "a" >> \o kwComma
                \o kwServiceOpen \o << "s", "a", "\"" >>, "nofield"),
    Malformed(kwBearer \o << " " >> \o kwRealm \o << "r", "a" >> \o kwComma
                \o kwScopeOpen \o << "x", "\"" >>, "nofield"),
    Malformed(kwBasicRealm \o << "r", "a", "\"" >>, "scheme"),
    Malformed(Challenge(<< "D", "i", "g", "e", "s", "t" >>, << " " >>,
                        << "r", "a" >>, << >>, << "s", "a" >>, << >>, << "x" >>),
              "scheme"),
    Malformed(<< "X" >> \o kwPlain, "suffix"),
    Malformed(kwBasicRealm \o << "b", "\"", ",", " " >> \o kwPlain, "second") }

ParseHeaders == { s.text : s \in ParseSamples }

ParseSampleOf(h) == CHOOSE s \in ParseSamples : s.text = h

\* exec and split on the headers above, computed once.
AllHeaders == Headers \cup ParseHeaders
ExecOfHeader == [h \in AllHeaders |-> RegExpExec(h)]
SplitOfScope ==
  [c \in { m.groups.scope :
             m \in { x \in { ExecOfHeader[h] : h \in AllHeaders } : x.matched } }
     |-> Split(c)]

\* wwwAuthenticateHeaderRegex.exec(wwwAuthenticateHeader)
wwwAuthenticateHeaderRegexExec(h) ==
  ExecOfHeader[h]

\* A variant of scopeSplit with one slip: empty pieces are dropped, as a split on
\* runs of spaces would.
scopeSplitNoEmpty(c) == SelectSeq(Split(c), LAMBDA x : x # << >>)

\* match.groups.scope.split(' ')
scopeSplit(c) == IF c \in DOMAIN SplitOfScope THEN SplitOfScope[c] ELSE Split(c)

\* The scopes arguments of getSession.
ScopeLists == { << << "y" >> >>, << << "x" >>, << "y" >> >> }

\* What the username memento and the secret storage may hold.
Usernames == { Undefined, Str(<< "a", "l" >>) }
Secrets == { Null, Str(<< >>), Str(<< "p", "w" >>) }

storageKey == << "k" >>

\* What fetch may settle with: a response (status, body), or a rejection with
\* the transport's error.
TokenBody == [t |-> "json", value |-> [token |-> Str(<< "t", "o", "k" >>)]]
EmptyBody == [t |-> "json", value |-> [token |-> Undefined]]
BadBody == [t |-> "text"]
FetchOutcomes ==
  { [kind |-> "response", status |-> 200, body |-> TokenBody],
    [kind |-> "response", status |-> 401, body |-> EmptyBody],
    [kind |-> "response", status |-> 403, body |-> EmptyBody],
    [kind |-> "response", status |-> 500, body |-> BadBody],
    [kind |-> "error", error |-> [name |-> "FetchError"]] }

\* The callers that may have a getSession call in flight.
Callers == { "c1", "c2" }

\* Bound of the model: the calls of the client (getSession, fallback, didFallback,
\* removeSession) and the writes to the stores, all together.
MaxOps == 3

(***************************************************************************)
(* The state                                                               *)
(***************************************************************************)

VARIABLES
  this,            \* the provider's fields: oAuthEndpoint, oAuthService,
                   \* defaultScopes, _didFallback
  storageMemento,  \* what storageMemento holds under "<storageKey>.username"
  secretStorage,   \* what secretStorage holds under "<storageKey>.secret"
  call,            \* per caller: its getSession call (position, locals, result)
  lastOp,          \* the operation of the last step and what it returned or threw
  hist             \* history: the operations counted, the fallback calls that
                   \* returned and their headers, and per caller the values the
                   \* stores have held since its getSession call began and the
                   \* challenge in force when the call began and when it
                   \* read the provider's fields (<< >>: none)

vars == << this, storageMemento, secretStorage, call, lastOp, hist >>

\* A caller with no getSession call made yet.
IdleCall ==
  [pc |-> "idle", scopes |-> << >>, username |-> Undefined, creds |-> None,
   sent |-> << >>, http |-> None, result |-> None]

Init ==
  /\ this = [oAuthEndpoint |-> Undefined, oAuthService |-> Undefined,
             defaultScopes |-> Undefined, _didFallback |-> FALSE]
  /\ storageMemento \in Usernames
  /\ secretStorage \in Secrets
  /\ call = [p \in Callers |-> IdleCall]
  /\ lastOp = [op |-> "new", outcome |-> None]
  /\ hist = [ops |-> 0, fallbacks |-> 0, fallbacksOk |-> 0,
             lastOk |-> << >>, prevOk |-> << >>,
             held |-> [p \in Callers |-> [u |-> {}, s |-> {}]],
             mode |-> [p \in Callers |-> [atCall |-> << >>, atRead |-> << >>]]]

(***************************************************************************)
(* The provider's code                                                     *)
(***************************************************************************)

\* Variants of fallbackOn, each with one slip, used to show that the properties
\* below depend on the code of fallback.
\*   EndpointOnly: the assignment of oAuthService is missing.
fallbackOnEndpointOnly(t, header, match) ==
  IF ~match.matched
  THEN [this |-> t,
        outcome |-> Throw(ErrorOf("Error",
          "Unable to parse WWW-Authenticate header: \"{0}\"", header))]
  ELSE [this |-> [t EXCEPT !.oAuthEndpoint = Str(match.groups.realm),
                           !.defaultScopes = Arr(scopeSplit(match.groups.scope)),
                           !._didFallback = TRUE],
        outcome |-> Return(Undefined)]

\*   KeepScopes: defaultScopes is assigned only when it is still undefined.
fallbackOnKeepScopes(t, header, match) ==
  IF ~match.matched
  THEN [this |-> t,
        outcome |-> Throw(ErrorOf("Error",
          "Unable to parse WWW-Authenticate header: \"{0}\"", header))]
  ELSE [this |-> [oAuthEndpoint |-> Str(match.groups.realm),
                  oAuthService |-> Str(match.groups.service),
                  defaultScopes |-> IF t.defaultScopes = Undefined
                                    THEN Arr(scopeSplit(match.groups.scope))
                                    ELSE t.defaultScopes,
                  _didFallback |-> TRUE],
        outcome |-> Return(Undefined)]

\*   AssignFirst: the fields are assigned from match?.groups before the test.
fallbackOnAssignFirst(t, header, match) ==
  IF ~match.matched
  THEN [this |-> [t EXCEPT !.oAuthEndpoint = Undefined, !.oAuthService = Undefined,
                           !.defaultScopes = Undefined],
        outcome |-> Throw(ErrorOf("Error",
          "Unable to parse WWW-Authenticate header: \"{0}\"", header))]
  ELSE [this |-> [oAuthEndpoint |-> Str(match.groups.realm),
                  oAuthService |-> Str(match.groups.service),
                  defaultScopes |-> Arr(scopeSplit(match.groups.scope)),
                  _didFallback |-> TRUE],
        outcome |-> Return(Undefined)]

\*   FlagFirst: _didFallback is set before the header is parsed.
fallbackOnFlagFirst(t, header, match) ==
  IF ~match.matched
  THEN [this |-> [t EXCEPT !._didFallback = TRUE],
        outcome |-> Throw(ErrorOf("Error",
          "Unable to parse WWW-Authenticate header: \"{0}\"", header))]
  ELSE [this |-> [oAuthEndpoint |-> Str(match.groups.realm),
                  oAuthService |-> Str(match.groups.service),
                  defaultScopes |-> Arr(scopeSplit(match.groups.scope)),
                  _didFallback |-> TRUE],
        outcome |-> Return(Undefined)]

\*   FirstWins: every field is assigned only when it is still undefined (??=).
fallbackOnFirstWins(t, header, match) ==
  IF ~match.matched
  THEN [this |-> t,
        outcome |-> Throw(ErrorOf("Error",
          "Unable to parse WWW-Authenticate header: \"{0}\"", header))]
  ELSE [this |-> IF t.oAuthEndpoint = Undefined
                 THEN [oAuthEndpoint |-> Str(match.groups.realm),
                       oAuthService |-> Str(match.groups.service),
                       defaultScopes |-> Arr(scopeSplit(match.groups.scope)),
                       _didFallback |-> TRUE]
                 ELSE t,
        outcome |-> Return(Undefined)]

\*   NoHeader: the error does not carry the header.
fallbackOnNoHeader(t, header, match) ==
  IF ~match.matched
  THEN [this |-> t,
        outcome |-> Throw(ErrorOf("Error",
          "Unable to parse WWW-Authenticate header", << >>))]
  ELSE [this |-> [oAuthEndpoint |-> Str(match.groups.realm),
                  oAuthService |-> Str(match.groups.service),
                  defaultScopes |-> Arr(scopeSplit(match.groups.scope)),
                  _didFallback |-> TRUE],
        outcome |-> Return(Undefined)]

\* fallback, from the match on: the test of the three groups, the throw or
\* the four assignments.  The fields after the call and its outcome.
fallbackOn(t, header, match) ==
  IF \/ ~match.matched
     \/ match.groups.realm = << >>
     \/ match.groups.service = << >>
     \/ match.groups.scope = << >>
  THEN [this |-> t,
        outcome |-> Throw(ErrorOf("Error",
          "Unable to parse WWW-Authenticate header: \"{0}\"", header))]
  ELSE [this |-> [oAuthEndpoint |-> Str(match.groups.realm),
                  oAuthService |-> Str(match.groups.service),
                  defaultScopes |-> Arr(scopeSplit(match.groups.scope)),
                  _didFallback |-> TRUE],
        outcome |-> Return(Undefined)]

\* fallback(wwwAuthenticateHeader)
fallback(t, header) ==
  fallbackOn(t, header, wwwAuthenticateHeaderRegexExec(header))

\* get didFallback()
didFallback(t) == t._didFallback

\* A variant of removeSession with one slip: with no session id there is
\* nothing to remove and the call returns.
removeSessionNothingToDo(sessionId) ==
  IF sessionId = Undefined THEN Return(Undefined)
  ELSE Throw(ErrorOf("Error", "TODO: Method not implemented.", Undefined))

\* removeSession(sessionId)
removeSession(sessionId) ==
  Throw(ErrorOf("Error", "TODO: Method not implemented.", Undefined))

\* A variant of secretStorageGet with one slip: the secret an earlier call has
\* read is kept and used again.
secretStorageGetCached ==
  LET earlier == { q \in Callers : call[q].creds.kind = "return" }
  IN  IF earlier = {} THEN secretStorage
      ELSE Str(call[CHOOSE q \in earlier : TRUE].creds.value.secret)

\* secretStorage.get("<storageKey>.secret"): the stored value, read anew.
secretStorageGet == secretStorage

\* Variants of getBasicCredentials, each with one slip: a missing secret is
\* taken as the empty string; an empty secret is refused like a missing one.
getBasicCredentialsMissingAsEmpty(username, secret) ==
  IF Falsy(username)
  THEN Throw(ErrorOf("Error", "Could not load username for {0}", storageKey))
  ELSE Return([username |-> username.s,
               secret |-> IF secret \in { Undefined, Null } THEN << >> ELSE secret.s])

getBasicCredentialsFalsySecret(username, secret) ==
  IF Falsy(username)
  THEN Throw(ErrorOf("Error", "Could not load username for {0}", storageKey))
  ELSE IF Falsy(secret)
  THEN Throw(ErrorOf("Error", "Could not load secret for {0}", storageKey))
  ELSE Return([username |-> username.s, secret |-> secret.s])

\* getBasicCredentials, after both reads: the checks and the pair returned.
getBasicCredentials(username, secret) ==
  IF Falsy(username)
  THEN Throw(ErrorOf("Error", "Could not load username for {0}", storageKey))
  ELSE IF secret = Undefined \/ secret = Null
  THEN Throw(ErrorOf("Error", "Could not load secret for {0}", storageKey))
  ELSE Return([username |-> username.s, secret |-> secret.s])

\* A variant of basicMode with one slip: the mode is the one in force when a
\* call now waiting for its credentials began.
basicModeAtCall(t) ==
  \E p \in Callers :
    call[p].pc = "awaitCredentials" /\ hist.mode[p].atCall = << >>

\* getSession's test of the mode.
basicMode(t) == t.oAuthEndpoint = Undefined \/ t.oAuthService = Undefined

\* getSession's Basic branch.
basicSession(username, secret, scopes) ==
  [id |-> "basic", type |-> "Basic",
   account |-> [label |-> username, id |-> username],
   accessToken |-> Str(getBasicAuthToken(username, secret)),
   scopes |-> scopes]

\* Variants of spreadScopes, each with one slip.
\*   Push: this.defaultScopes.push(...scopes) instead of a new array.
spreadScopesPush(defaultScopes, scopes) ==
  [value |-> (IF defaultScopes = Undefined THEN << >> ELSE defaultScopes.a) \o scopes,
   receiver |-> IF defaultScopes = Undefined THEN Undefined
                ELSE Arr(defaultScopes.a \o scopes)]

\*   CallerFirst: the caller's scopes before the default scopes.
spreadScopesCallerFirst(defaultScopes, scopes) ==
  [value |-> scopes \o (IF defaultScopes = Undefined THEN << >> ELSE defaultScopes.a),
   receiver |-> defaultScopes]

\* [...this.defaultScopes ?? [], ...scopes]: the new array, and the receiver
\* this.defaultScopes as the expression leaves it.
spreadScopes(defaultScopes, scopes) ==
  [value |-> (IF defaultScopes = Undefined THEN << >> ELSE defaultScopes.a) \o scopes,
   receiver |-> defaultScopes]

\* A variant of oAuthRequest with one slip: the endpoint is the one of the
\* challenge before the last, as if it had been kept from an earlier read.
oAuthRequestStaleEndpoint(t, username, secret, scopes) ==
  [url |-> IF hist.prevOk = << >> THEN t.oAuthEndpoint.s
           ELSE SampleOf(hist.prevOk).realm,
   method |-> "GET",
   headers |->
     [Authorization |-> << "B", "a", "s", "i", "c", " " >>
                          \o getBasicAuthToken(username, secret),
      grant_type |-> "password",
      service |-> t.oAuthService.s,
      scope |-> Join(spreadScopes(t.defaultScopes, scopes).value, << " " >>)]]

\* getSession's OAuth branch: the url and the request handed to httpRequest.
oAuthRequest(t, username, secret, scopes) ==
  [url |-> t.oAuthEndpoint.s,
   method |-> "GET",
   headers |->
     [Authorization |-> << "B", "a", "s", "i", "c", " " >>
                          \o getBasicAuthToken(username, secret),
      grant_type |-> "password",
      service |-> t.oAuthService.s,
      scope |-> Join(spreadScopes(t.defaultScopes, scopes).value, << " " >>)]]

\* Variants of httpRequest, each with one slip: every failing status is thrown
\* as 401 is; a rejection of fetch is caught and thrown anew as
\* UnauthorizedError.
httpRequestThrowOnAnyFailure(url, outcome, throwOnFailure) ==
  IF outcome.kind = "error" THEN Throw(outcome.error)
  ELSE IF throwOnFailure /\ ~(outcome.status >= 200 /\ outcome.status < 300)
  THEN Throw(ErrorOf("UnauthorizedError",
         "Request to '{0}' failed with status code 401: Unauthorized", url))
  ELSE Return([status |-> outcome.status,
               succeeded |-> outcome.status >= 200 /\ outcome.status < 300,
               body |-> outcome.body])

httpRequestWrapRejection(url, outcome, throwOnFailure) ==
  IF outcome.kind = "error" \/ (throwOnFailure /\ outcome.status = 401)
  THEN Throw(ErrorOf("UnauthorizedError",
         "Request to '{0}' failed with status code 401: Unauthorized", url))
  ELSE Return([status |-> outcome.status,
               succeeded |-> outcome.status >= 200 /\ outcome.status < 300,
               body |-> outcome.body])

\* httpRequest(url, request, throwOnFailure), once fetch has settled.
httpRequest(url, outcome, throwOnFailure) ==
  IF outcome.kind = "error" THEN Throw(outcome.error)
  ELSE IF throwOnFailure /\ outcome.status = 401
  THEN Throw(ErrorOf("UnauthorizedError",
         "Request to '{0}' failed with status code 401: Unauthorized", url))
  ELSE Return([status |-> outcome.status,
               succeeded |-> outcome.status >= 200 /\ outcome.status < 300,
               body |-> outcome.body])

\* response.json()
json(body) ==
  IF body.t = "json" THEN Return(body.value)
  ELSE Throw([name |-> "SyntaxError"])

\* getSession's Bearer session.
oAuthSession(username, token, scopes) ==
  [id |-> "oauth", type |-> "Bearer",
   account |-> [label |-> username, id |-> username],
   accessToken |-> token,
   scopes |-> scopes]

(***************************************************************************)
(* The operations.  JavaScript runs each of them to its next await without *)
(* interruption, so each action is the code between two awaits.            *)
(***************************************************************************)

Op(name, arg, outcome) == [op |-> name, arg |-> arg, outcome |-> outcome]

\* getSession(scopes) is called: it calls getBasicCredentials, which reads the
\* username and awaits secretStorage.get.
GetSessionCall(p, scopes) ==
  /\ call[p].pc = "idle"
  /\ hist.ops < MaxOps
  /\ call' = [call EXCEPT ![p] =
       [IdleCall EXCEPT !.pc = "awaitSecret", !.scopes = scopes,
                        !.username = storageMemento]]
  /\ hist' = [hist EXCEPT !.ops = @ + 1,
                          !.held[p] = [u |-> { storageMemento },
                                       s |-> { secretStorage }],
                          !.mode[p] = [atCall |-> hist.lastOk,
                                       atRead |-> << >>]]
  /\ lastOp' = Op("getSession", Undefined, None)
  /\ UNCHANGED << this, storageMemento, secretStorage >>

\* secretStorage.get settles: getBasicCredentials checks both values and
\* settles in its turn.
SecretSettle(p) ==
  /\ call[p].pc = "awaitSecret"
  /\ call' = [call EXCEPT ![p].pc = "awaitCredentials",
                          ![p].creds =
                             getBasicCredentials(call[p].username, secretStorageGet)]
  /\ lastOp' = Op("getBasicCredentials", Undefined, None)
  /\ UNCHANGED << this, storageMemento, secretStorage, hist >>

\* getSession resumes with the credentials (or their error): Basic session,
\* or the token request handed to httpRequest, which awaits fetch.
GetSessionResume(p) ==
  /\ call[p].pc = "awaitCredentials"
  /\ LET c == call[p].creds
     IN  IF c.kind = "throw"
         THEN /\ call' = [call EXCEPT ![p].pc = "idle", ![p].result = c]
              /\ this' = this
         ELSE IF basicMode(this)
         THEN /\ call' = [call EXCEPT ![p].pc = "idle",
                   ![p].result = Return(basicSession(c.value.username,
                                                     c.value.secret,
                                                     call[p].scopes))]
              /\ this' = this
         ELSE /\ call' = [call EXCEPT ![p].pc = "awaitFetch",
                   ![p].sent = Append(@, oAuthRequest(this, c.value.username,
                                                     c.value.secret,
                                                     call[p].scopes))]
              /\ this' = [this EXCEPT !.defaultScopes =
                            spreadScopes(this.defaultScopes, call[p].scopes).receiver]
  /\ lastOp' = Op("getSession", Undefined, None)
  /\ hist' = [hist EXCEPT !.mode[p].atRead =
                IF call[p].creds.kind = "throw" THEN << >> ELSE hist.lastOk]
  /\ UNCHANGED << storageMemento, secretStorage >>

\* fetch settles: httpRequest throws UnauthorizedError or returns the response.
FetchSettle(p, outcome) ==
  /\ call[p].pc = "awaitFetch"
  /\ call' = [call EXCEPT ![p].pc = "awaitHttpRequest",
                          ![p].http = httpRequest(call[p].sent[Len(call[p].sent)].url,
                                                  outcome, TRUE)]
  /\ lastOp' = Op("httpRequest", outcome, None)
  /\ UNCHANGED << this, storageMemento, secretStorage, hist >>

\* getSession resumes with httpRequest's result: its error, or it awaits json().
GetSessionAfterHttp(p) ==
  /\ call[p].pc = "awaitHttpRequest"
  /\ IF call[p].http.kind = "throw"
     THEN call' = [call EXCEPT ![p].pc = "idle", ![p].result = call[p].http]
     ELSE call' = [call EXCEPT ![p].pc = "awaitJson"]
  /\ lastOp' = Op("getSession", Undefined, None)
  /\ UNCHANGED << this, storageMemento, secretStorage, hist >>

\* json() settles: getSession returns the Bearer session, or json's error.
JsonSettle(p) ==
  /\ call[p].pc = "awaitJson"
  /\ LET j == json(call[p].http.value.body)
     IN  IF j.kind = "throw"
         THEN call' = [call EXCEPT ![p].pc = "idle", ![p].result = j]
         ELSE call' = [call EXCEPT ![p].pc = "idle",
                 ![p].result = Return(oAuthSession(call[p].creds.value.username,
                                                   j.value.token, call[p].scopes))]
  /\ lastOp' = Op("getSession", Undefined, None)
  /\ UNCHANGED << this, storageMemento, secretStorage, hist >>

\* The registry client calls fallback(header).
Fallback(header) ==
  /\ hist.ops < MaxOps
  /\ LET r == fallback(this, header)
     IN  /\ this' = r.this
         /\ lastOp' = Op("fallback", header, r.outcome)
         /\ hist' = [hist EXCEPT
              !.ops = @ + 1,
              !.fallbacks = @ + 1,
              !.fallbacksOk = IF r.outcome.kind = "return" THEN @ + 1 ELSE @,
              !.lastOk = IF r.outcome.kind = "return" THEN header ELSE @,
              !.prevOk = IF r.outcome.kind = "return" THEN hist.lastOk ELSE @]
  /\ UNCHANGED << storageMemento, secretStorage, call >>

\* The registry client reads didFallback.
DidFallback ==
  /\ hist.ops < MaxOps
  /\ lastOp' = Op("didFallback", Undefined, Return(didFallback(this)))
  /\ hist' = [hist EXCEPT !.ops = @ + 1]
  /\ UNCHANGED << this, storageMemento, secretStorage, call >>

\* Somebody calls removeSession(sessionId).
RemoveSession(sessionId) ==
  /\ hist.ops < MaxOps
  /\ lastOp' = Op("removeSession", sessionId, removeSession(sessionId))
  /\ hist' = [hist EXCEPT !.ops = @ + 1]
  /\ UNCHANGED << this, storageMemento, secretStorage, call >>

\* The user signs in again or rotates the secret: the stores change.
StoreWrite(username, secret) ==
  /\ hist.ops < MaxOps
  /\ << username, secret >> # << storageMemento, secretStorage >>
  /\ storageMemento' = username
  /\ secretStorage' = secret
  /\ hist' = [hist EXCEPT
       !.ops = @ + 1,
       !.held = [p \in Callers |->
                   IF call[p].pc = "idle" THEN hist.held[p]
                   ELSE [u |-> hist.held[p].u \cup { username },
                         s |-> hist.held[p].s \cup { secret }]]]
  /\ lastOp' = Op("store", Undefined, None)
  /\ UNCHANGED << this, call >>

Next ==
  \/ \E p \in Callers, scopes \in ScopeLists : GetSessionCall(p, scopes)
  \/ \E p \in Callers : SecretSettle(p)
  \/ \E p \in Callers : GetSessionResume(p)
  \/ \E p \in Callers, outcome \in FetchOutcomes : FetchSettle(p, outcome)
  \/ \E p \in Callers : GetSessionAfterHttp(p)
  \/ \E p \in Callers : JsonSettle(p)
  \/ \E header \in Headers : Fallback(header)
  \/ DidFallback
  \/ \E sessionId \in { Undefined, Str(<< "b", "a", "s", "i", "c" >>) } :
       RemoveSession(sessionId)
  \/ \E username \in Usernames, secret \in Secrets : StoreWrite(username, secret)

Spec == Init /\ [][Next]_vars

(***************************************************************************)
(* Properties                                                              *)
(***************************************************************************)

\* The two modes, by the fields.
InBasicMode == this.oAuthEndpoint = Undefined /\ this.oAuthService = Undefined
InOAuthMode ==
  /\ this.oAuthEndpoint.t = "string" /\ this.oAuthEndpoint.s # << >>
  /\ this.oAuthService.t = "string" /\ this.oAuthService.s # << >>

\* The fields a challenge made of the parts of sample s must leave.
FieldsOf(s) ==
  [oAuthEndpoint |-> Str(s.realm), oAuthService |-> Str(s.service),
   defaultScopes |-> Arr(s.scopes), _didFallback |-> TRUE]

\* C1: in every state, after any sequence of getSession, fallback, removeSession
\* and didFallback calls, succeeding or failing, oAuthEndpoint and oAuthService
\* are both absent, or both present and non-empty.
C1_BothOrNeither == InBasicMode \/ InOAuthMode

\* C1's case: OAuth mode after a fallback that succeeded and one that failed.
C1_Witness ==
  /\ InOAuthMode
  /\ hist.fallbacksOk >= 1
  /\ hist.fallbacks > hist.fallbacksOk

\* What one getSession call has sent was built from one challenge: url, service
\* and the default part of scope are those of one sample.
SentFromOneChallenge(p) ==
  \A i \in 1..Len(call[p].sent) :
    \E s \in { x \in Samples : x.bearer } :
      /\ call[p].sent[i].url = s.realm
      /\ call[p].sent[i].headers.service = s.service
      /\ Split(call[p].sent[i].headers.scope) = s.scopes \o call[p].scopes

\* C2: a successful fallback sets the four fields in one step (every step that
\* changes a field is a fallback that returned, and leaves all four as the
\* header's realm, service, scopes and TRUE), so that a getSession call in
\* flight sends a request built from one challenge, and didFallback answers as
\* the mode is.
C2_FallbackAtomic ==
  /\ [](\A p \in Callers : SentFromOneChallenge(p))
  /\ [](lastOp.op = "didFallback" => (lastOp.outcome.value <=> InOAuthMode))
  /\ [][this' # this =>
          /\ lastOp'.op = "fallback"
          /\ lastOp'.outcome.kind = "return"
          /\ this' = FieldsOf(SampleOf(lastOp'.arg))]_vars

\* C2's case: a second fallback, with another challenge, has just succeeded
\* while a getSession call awaits its credentials.
C2_Witness ==
  /\ lastOp.op = "fallback" /\ lastOp.outcome.kind = "return"
  /\ hist.fallbacksOk = 2 /\ hist.prevOk # hist.lastOk
  /\ \E p \in Callers : call[p].pc \in { "awaitSecret", "awaitCredentials" }

\* C3: the provider starts in Basic mode; once a fallback has succeeded no step
\* leaves OAuth mode, and every getSession that reads the mode afterwards (with
\* credentials) takes the OAuth branch: it sends the token request.
C3_OAuthTerminal ==
  /\ [](hist.fallbacksOk = 0 => InBasicMode)
  /\ [][InOAuthMode => InOAuthMode']_vars
  /\ [][\A p \in Callers :
          ( /\ hist.fallbacksOk >= 1
            /\ call[p].pc = "awaitCredentials"
            /\ call[p].creds.kind = "return"
            /\ call'[p].pc # "awaitCredentials" )
          => /\ call'[p].pc = "awaitFetch"
             /\ Len(call'[p].sent) = 1
             /\ call'[p].result = None]_vars

\* C3's case: after a successful fallback, a failing fallback has just been made
\* and a getSession call has taken the OAuth branch.
C3_Witness ==
  /\ hist.fallbacksOk >= 1
  /\ lastOp.op = "fallback" /\ lastOp.outcome.kind = "throw"
  /\ \E p \in Callers : call[p].pc = "awaitFetch"

\* C4: didFallback is true exactly when a fallback call has returned, which is
\* exactly when the provider is in OAuth mode; it is false at construction and
\* no step resets it.
C4_DidFallback ==
  /\ [](didFallback(this) <=> hist.fallbacksOk >= 1)
  /\ [](didFallback(this) <=> InOAuthMode)
  /\ [](hist.fallbacks = 0 => ~didFallback(this))
  /\ [][didFallback(this) => didFallback(this')]_vars

\* C4's case: didFallback is read as true after a successful fallback.
C4_Witness ==
  /\ lastOp.op = "didFallback"
  /\ lastOp.outcome.value = TRUE
  /\ hist.fallbacksOk >= 1

\* C5: only fallback changes the provider's fields: every step of getSession
\* (its call, getBasicCredentials, either branch, httpRequest settling, json
\* settling, returning or throwing), removeSession and the didFallback query
\* leave oAuthEndpoint, oAuthService, defaultScopes and _didFallback as they were.
C5_OnlyFallbackMutates ==
  [][lastOp'.op \in { "getSession", "getBasicCredentials", "httpRequest",
                      "removeSession", "didFallback", "store" }
       => this' = this]_vars

\* C5's case: in OAuth mode a getSession call has sent its token request, and
\* the fields are still those of the challenge.
C5_Witness ==
  /\ InOAuthMode
  /\ this = FieldsOf(SampleOf(hist.lastOk))
  /\ lastOp.op = "getSession"
  /\ \E p \in Callers : call[p].pc = "awaitFetch" /\ Len(call[p].sent) = 1

\* C6: a fallback whose header is no Bearer challenge throws an error that
\* carries the header as it was given, and leaves the four fields as they were.
C6_FailedFallback ==
  [][(lastOp'.op = "fallback" /\ ~SampleOf(lastOp'.arg).bearer)
       => /\ lastOp'.outcome.kind = "throw"
          /\ lastOp'.outcome.error.message.arg = lastOp'.arg
          /\ this' = this]_vars

\* C6's case: a fallback has just thrown in OAuth mode, the fields being those
\* of the earlier challenge.
C6_Witness ==
  /\ lastOp.op = "fallback" /\ lastOp.outcome.kind = "throw"
  /\ hist.fallbacksOk >= 1
  /\ this = FieldsOf(SampleOf(hist.lastOk))

\* C7: after successful fallback calls the fields are the realm, the service and
\* the scopes of the last header that succeeded, whatever the earlier ones
\* were; and fallback with that header again leaves the same fields.
C7_LastWriterWins ==
  hist.fallbacksOk >= 1 =>
    /\ this = FieldsOf(SampleOf(hist.lastOk))
    /\ fallback(this, hist.lastOk).this = this
    /\ fallback(this, hist.lastOk).outcome.kind = "return"

\* C7's case: two fallback calls have succeeded, with different challenges.
C7_Witness ==
  /\ hist.fallbacksOk = 2
  /\ hist.prevOk # hist.lastOk
  /\ this.oAuthEndpoint # Str(SampleOf(hist.prevOk).realm)

\* base64 read back: four characters to three bytes, less for '=' padding.
B64Index(c) == (CHOOSE i \in 1..Len(B64Chars) : B64Chars[i] = c) - 1

RECURSIVE FromBase64(_)
FromBase64(cs) ==
  IF Len(cs) < 4 THEN << >>
  ELSE IF cs[3] = "="
  THEN << B64Index(cs[1]) * 4 + (B64Index(cs[2]) \div 16) >>
  ELSE IF cs[4] = "="
  THEN << B64Index(cs[1]) * 4 + (B64Index(cs[2]) \div 16),
          (B64Index(cs[2]) % 16) * 16 + (B64Index(cs[3]) \div 4) >>
  ELSE << B64Index(cs[1]) * 4 + (B64Index(cs[2]) \div 16),
          (B64Index(cs[2]) % 16) * 16 + (B64Index(cs[3]) \div 4),
          (B64Index(cs[3]) % 4) * 64 + B64Index(cs[4]) >>
       \o FromBase64(SubSeq(cs, 5, Len(cs)))

\* token is the base64 text of username:secret.
IsBasicToken(token, username, secret) ==
  /\ Len(token) % 4 = 0
  /\ FromBase64(token) = Bytes(username \o << ":" >> \o secret)

\* base64("alice:s3cr3t"), base64("al:") and base64("al:pw") as any base64
\* encoder gives them.
KnownTokens ==
  /\ getBasicAuthToken(<< "a", "l", "i", "c", "e" >>, << "s", "3", "c", "r", "3", "t" >>)
       = << "Y", "W", "x", "p", "Y", "2", "U", "6", "c", "z", "N", "j", "c", "j", "N", "0" >>
  /\ getBasicAuthToken(<< "a", "l" >>, << >>) = << "Y", "W", "w", "6" >>
  /\ getBasicAuthToken(<< "a", "l" >>, << "p", "w" >>)
       = << "Y", "W", "w", "6", "c", "H", "c", "=" >>

\* The credentials getSession call p holds.
UserOf(p) == call[p].creds.value.username
SecretOf(p) == call[p].creds.value.secret

\* C8: a getSession that resumes with credentials while the provider is in Basic
\* mode returns the session id "basic", type "Basic", accessToken the base64 of
\* username:secret, account label and id the username, scopes the caller's
\* scopes as given, and sends no HTTP request.
C8_BasicSession ==
  [][\A p \in Callers :
        ( /\ call[p].pc = "awaitCredentials"
          /\ call[p].creds.kind = "return"
          /\ InBasicMode
          /\ call'[p].pc # "awaitCredentials" )
        => /\ call'[p].pc = "idle"
           /\ call'[p].sent = << >>
           /\ call'[p].result.kind = "return"
           /\ DOMAIN call'[p].result.value
                = { "id", "type", "account", "accessToken", "scopes" }
           /\ call'[p].result.value.id = "basic"
           /\ call'[p].result.value.type = "Basic"
           /\ call'[p].result.value.account = [label |-> UserOf(p), id |-> UserOf(p)]
           /\ call'[p].result.value.scopes = call[p].scopes
           /\ call'[p].result.value.accessToken.t = "string"
           /\ IsBasicToken(call'[p].result.value.accessToken.s,
                           UserOf(p), SecretOf(p))
           /\ KnownTokens]_vars

\* C8's case: a Basic session returned for user "al" with the empty secret,
\* its token base64("al:").
C8_Witness ==
  \E p \in Callers :
    /\ call[p].pc = "idle"
    /\ call[p].result.kind = "return"
    /\ call[p].result.value.type = "Basic"
    /\ call[p].creds.value = [username |-> << "a", "l" >>, secret |-> << >>]
    /\ call[p].result.value.accessToken = Str(<< "Y", "W", "w", "6" >>)
    /\ call[p].sent = << >>

\* C9: a getSession that resumes with credentials in OAuth mode sends one GET to
\* oAuthEndpoint, its headers Authorization "Basic " and base64(username:secret),
\* grant_type password, service oAuthService, and scope the default scopes then
\* the caller's scopes, in that order, duplicates kept, joined by single spaces;
\* and the call sends nothing more.
C9_TokenRequest ==
  /\ [](\A p \in Callers : Len(call[p].sent) <= 1)
  /\ [][\A p \in Callers :
          ( /\ call[p].pc = "awaitCredentials"
            /\ call[p].creds.kind = "return"
            /\ InOAuthMode
            /\ call'[p].pc # "awaitCredentials" )
          => /\ call'[p].pc = "awaitFetch"
             /\ Len(call'[p].sent) = 1
             /\ LET req == call'[p].sent[1]
                IN  /\ req.url = this.oAuthEndpoint.s
                    /\ req.method = "GET"
                    /\ DOMAIN req.headers
                         = { "Authorization", "grant_type", "service", "scope" }
                    /\ SubSeq(req.headers.Authorization, 1, 6)
                         = << "B", "a", "s", "i", "c", " " >>
                    /\ IsBasicToken(SubSeq(req.headers.Authorization, 7,
                                           Len(req.headers.Authorization)),
                                    UserOf(p), SecretOf(p))
                    /\ req.headers.grant_type = "password"
                    /\ req.headers.service = this.oAuthService.s
                    /\ Split(req.headers.scope) = this.defaultScopes.a \o call[p].scopes]_vars
  /\ [][\A p \in Callers :
          call[p].pc \in { "awaitFetch", "awaitHttpRequest", "awaitJson" }
          => call'[p].sent = call[p].sent]_vars

\* C9's case: with default scope x, getSession(["x", "y"]) has sent scope
\* "x x y" and has returned its Bearer session.
C9_Witness ==
  \E p \in Callers :
    /\ call[p].pc = "idle"
    /\ call[p].result.kind = "return"
    /\ call[p].result.value.type = "Bearer"
    /\ Len(call[p].sent) = 1
    /\ call[p].sent[1].headers.scope = << "x", " ", "x", " ", "y" >>

\* C10: credentials are not kept from one getSession call to the next: each call
\* reads the username when it begins and the secret when secretStorage.get
\* settles, the credentials it holds are values the stores have held since it
\* began, and the token it returns or sends is made of them.
C10_NoCredentialCache ==
  /\ [](\A p \in Callers :
          call[p].creds.kind = "return"
          => /\ Str(UserOf(p)) \in hist.held[p].u
             /\ Str(SecretOf(p)) \in hist.held[p].s
             /\ (call[p].result.kind = "return" /\ call[p].result.value.type = "Basic"
                   => IsBasicToken(call[p].result.value.accessToken.s,
                                   UserOf(p), SecretOf(p)))
             /\ \A i \in 1..Len(call[p].sent) :
                  IsBasicToken(SubSeq(call[p].sent[i].headers.Authorization, 7,
                                      Len(call[p].sent[i].headers.Authorization)),
                               UserOf(p), SecretOf(p)))
  /\ [][\A p \in Callers :
          (call[p].pc = "awaitSecret" /\ call'[p].pc = "awaitCredentials"
             /\ call'[p].creds.kind = "return")
          => /\ Str(call'[p].creds.value.username) = call[p].username
             /\ Str(call'[p].creds.value.secret) = secretStorage]_vars

\* C10's case: one call has returned a token made with the old secret, the
\* secret was changed, and a call begun afterwards has returned a token made
\* with the new one.
C10_Witness ==
  \E p, q \in Callers :
    /\ p # q
    /\ call[q].pc = "idle" /\ call[q].result.kind = "return"
    /\ call[p].pc = "idle" /\ call[p].result.kind = "return"
    /\ SecretOf(p) # SecretOf(q)
    /\ hist.held[p].s = { Str(SecretOf(p)) }
    /\ secretStorage = Str(SecretOf(p))
    /\ IsBasicToken(call[p].result.value.accessToken.s, UserOf(p), SecretOf(p))

\* C11: getSession reads the credentials before anything else, in both modes;
\* when the read fails (the username is absent or empty, or the secret is
\* undefined or null) the call fails with that very error, with no Session and
\* no HTTP request, in OAuthMode as in BasicMode.
C11_CredentialsFirst ==
  /\ [](\A p \in Callers :
          call[p].pc \in { "awaitSecret", "awaitCredentials" }
          => call[p].sent = << >> /\ call[p].http = None /\ call[p].result = None)
  /\ [][\A p \in Callers :
          (call[p].pc = "awaitSecret" /\ call'[p].pc = "awaitCredentials"
             /\ (call[p].username \in { Undefined, Str(<< >>) }
                   \/ secretStorage \in { Undefined, Null }))
          => call'[p].creds.kind = "throw"]_vars
  /\ [][\A p \in Callers :
          (call[p].pc = "awaitCredentials" /\ call[p].creds.kind = "throw"
             /\ call'[p] # call[p])
          => /\ call'[p] = [call[p] EXCEPT !.pc = "idle", !.result = call[p].creds]
             /\ call'[p].sent = << >>
             /\ this' = this]_vars

\* C11's case: a getSession called in OAuthMode has failed with the error of
\* the credential read, without a request.
C11_Witness ==
  \E p \in Callers :
    /\ InOAuthMode
    /\ hist.mode[p].atCall # << >>
    /\ call[p].pc = "idle"
    /\ call[p].creds.kind = "throw"
    /\ call[p].result = call[p].creds
    /\ call[p].sent = << >>

\* C14: nothing is retried or recovered locally.  A getSession call sends at
\* most one request and that request is fetched once; when fetch is rejected or
\* answers 401, the error (fetch's own, or UnauthorizedError) leaves getSession
\* as it is, with no further request and the provider's fields untouched; no
\* step of getSession or httpRequest calls fallback, and the provider leaves
\* BasicMode only in a fallback call that succeeds.
C14_NoRetry ==
  /\ [](\A p \in Callers : Len(call[p].sent) <= 1)
  /\ [][\A p \in Callers :
          (call[p].pc = "awaitFetch" /\ call'[p] # call[p])
          => /\ call'[p] = [call[p] EXCEPT !.pc = "awaitHttpRequest",
                                           !.http = call'[p].http]
             /\ lastOp'.op = "httpRequest"
             /\ lastOp'.arg.kind = "error"
                  => call'[p].http = Throw(lastOp'.arg.error)
             /\ (lastOp'.arg.kind = "response" /\ lastOp'.arg.status = 401)
                  => /\ call'[p].http.kind = "throw"
                     /\ call'[p].http.error.name = "UnauthorizedError"]_vars
  /\ [][\A p \in Callers :
          (call[p].pc = "awaitHttpRequest" /\ call[p].http.kind = "throw"
             /\ call'[p] # call[p])
          => /\ call'[p] = [call[p] EXCEPT !.pc = "idle", !.result = call[p].http]
             /\ this' = this]_vars
  /\ [][lastOp'.op \in { "getSession", "getBasicCredentials", "httpRequest" }
          => /\ hist'.fallbacks = hist.fallbacks
             /\ this'._didFallback = this._didFallback
             /\ this'.oAuthEndpoint = this.oAuthEndpoint
             /\ this'.oAuthService = this.oAuthService]_vars
  /\ [][(InBasicMode /\ ~InBasicMode')
          => /\ lastOp'.op = "fallback" /\ lastOp'.outcome.kind = "return"
             /\ hist'.fallbacks = hist.fallbacks + 1]_vars

\* C14's case: in OAuthMode a call has sent its one request, fetch was
\* rejected, and the call has failed with fetch's error.
C14_Witness ==
  \E p \in Callers :
    /\ InOAuthMode
    /\ call[p].pc = "idle"
    /\ Len(call[p].sent) = 1
    /\ call[p].result = Throw([name |-> "FetchError"])

\* A getSession call is about to read the provider's fields, and a fallback has
\* replaced them since the call began.
RacingRead(p) ==
  /\ call[p].pc = "awaitCredentials"
  /\ call[p].creds.kind = "return"
  /\ hist.lastOk # hist.mode[p].atCall

\* The request a call has sent is not made of the fields of one challenge.
TornRequest(p) == Len(call[p].sent) = 1 /\ ~SentFromOneChallenge(p)

\* C15, as stated: a getSession call that runs concurrently with a fallback
\* transition may read a torn state, that is, where a call is about to read the
\* fields a fallback has replaced meanwhile, a step of the call is possible
\* that sends a request mixing the values of different provider states.
C15_TornReadPossible ==
  \A p \in Callers :
    RacingRead(p) => ENABLED (GetSessionResume(p) /\ TornRequest(p)')

\* C15, amended: no interleaving gives a torn read.  Whatever fallback calls
\* run while a getSession call is in flight, the request the call sends has the
\* endpoint, the service and the default scopes of the one challenge in force
\* at the step in which the call reads the fields.
C15_NoTornRead ==
  \A p \in Callers :
    Len(call[p].sent) >= 1
    => /\ Len(call[p].sent) = 1
       /\ hist.mode[p].atRead # << >>
       /\ LET s == SampleOf(hist.mode[p].atRead)
              req == call[p].sent[1]
          IN  /\ s.bearer
              /\ req.url = s.realm
              /\ req.headers.service = s.service
              /\ Split(req.headers.scope) = s.scopes \o call[p].scopes

\* C15's case: a call begun under one challenge has read the fields after a
\* fallback replaced them with another's and has sent its request.
C15_Witness ==
  \E p \in Callers :
    /\ Len(call[p].sent) = 1
    /\ hist.mode[p].atCall # << >>
    /\ hist.mode[p].atRead # hist.mode[p].atCall
    /\ call[p].sent[1].url = SampleOf(hist.mode[p].atRead).realm

\* C16: removeSession fails with the not-implemented error for every sessionId,
\* in every state of the provider, and changes nothing.
C16_RemoveSessionFails ==
  /\ [](lastOp.op = "removeSession"
          => /\ lastOp.outcome.kind = "throw"
             /\ lastOp.outcome.error.name = "Error"
             /\ lastOp.outcome.error.message.template
                  = "TODO: Method not implemented.")
  /\ [][(lastOp'.op = "removeSession" /\ hist'.ops # hist.ops)
          => UNCHANGED << this, storageMemento, secretStorage, call >>]_vars

\* C16's case: removeSession has failed in OAuthMode, called without a session
\* id, while a getSession call is in flight.
C16_Witness ==
  /\ lastOp.op = "removeSession"
  /\ lastOp.arg = Undefined
  /\ lastOp.outcome.kind = "throw"
  /\ InOAuthMode
  /\ \E p \in Callers : call[p].pc # "idle"

\* C19: in OAuthMode getSession returns a Session (id "oauth", type "Bearer",
\* accessToken the token field of the response body, scopes the caller's) only
\* when the token request succeeded: after an answer with a status outside
\* 200..299 (401, 403, 500, ...) it returns no Session.
C19_SessionOnlyOnSuccess ==
  \A p \in Callers :
    (call[p].result.kind = "return" /\ call[p].result.value.type = "Bearer")
    => /\ call[p].http.kind = "return"
       /\ call[p].http.value.status \in 200..299
       /\ call[p].result.value.id = "oauth"
       /\ call[p].result.value.accessToken = call[p].http.value.body.value.token
       /\ call[p].result.value.scopes = call[p].scopes

\* C20: a getSession call uses the mode in force when it gets its credentials
\* back, not the one in force when it was called.  A call that has its
\* credentials and has gone on has, when no challenge was in force at that
\* step, returned a Basic session without a request, and otherwise sent the
\* token request with the endpoint, service and default scopes of the challenge
\* in force at that one step, and what it returns is a Bearer session; this
\* holds for a call begun in BasicMode as for any other.
C20_ModeAtRead ==
  \A p \in Callers :
    (call[p].creds.kind = "return"
       /\ call[p].pc \notin { "awaitSecret", "awaitCredentials" })
    => IF hist.mode[p].atRead = << >>
       THEN /\ call[p].sent = << >>
            /\ call[p].pc = "idle"
            /\ call[p].result.kind = "return"
            /\ call[p].result.value.type = "Basic"
       ELSE /\ Len(call[p].sent) = 1
            /\ LET s == SampleOf(hist.mode[p].atRead)
               IN  /\ call[p].sent[1].url = s.realm
                   /\ call[p].sent[1].headers.service = s.service
                   /\ call[p].sent[1].headers.scope
                        = Join(s.scopes \o call[p].scopes, << " " >>)
            /\ (call[p].pc = "idle" /\ call[p].result.kind = "return")
                 => call[p].result.value.type = "Bearer"

\* C20's case: a call begun in BasicMode, with a fallback succeeding before it
\* got its credentials back, has made the token exchange and returned a Bearer
\* session.
C20_Witness ==
  \E p \in Callers :
    /\ hist.mode[p].atCall = << >>
    /\ hist.mode[p].atRead # << >>
    /\ call[p].pc = "idle"
    /\ Len(call[p].sent) = 1
    /\ call[p].result.kind = "return"
    /\ call[p].result.value.type = "Bearer"
    /\ call[p].result.value.accessToken = Str(<< "t", "o", "k" >>)

(***************************************************************************)
(* getBasicCredentials over every kind of stored value                     *)
(***************************************************************************)

\* What the stores may hold, of every kind: nothing, null, the empty string, a
\* string.
AnyUsernames ==
  { Undefined, Str(<< >>), Str(<< "a", "l" >>), Str(<< "b" >>) }
AnySecrets ==
  { Undefined, Null, Str(<< >>), Str(<< "p", "w" >>), Str(<< " " >>) }

InitCredentials ==
  /\ this = [oAuthEndpoint |-> Undefined, oAuthService |-> Undefined,
             defaultScopes |-> Undefined, _didFallback |-> FALSE]
  /\ storageMemento \in AnyUsernames
  /\ secretStorage \in AnySecrets
  /\ call = [p \in Callers |-> IdleCall]
  /\ lastOp = [op |-> "new", outcome |-> None]
  /\ hist = [ops |-> 0, fallbacks |-> 0, fallbacksOk |-> 0,
             lastOk |-> << >>, prevOk |-> << >>,
             held |-> [p \in Callers |-> [u |-> {}, s |-> {}]],
             mode |-> [p \in Callers |-> [atCall |-> << >>, atRead |-> << >>]]]

NextCredentials ==
  \/ \E p \in Callers, scopes \in ScopeLists : GetSessionCall(p, scopes)
  \/ \E p \in Callers : SecretSettle(p)
  \/ \E p \in Callers : GetSessionResume(p)

SpecCredentials == InitCredentials /\ [][NextCredentials]_vars

\* C12: getBasicCredentials fails exactly when the username is absent or empty
\* or the secret is undefined or null; with a non-empty username and any string
\* secret, the empty string included, it returns the two values unchanged.
C12_CredentialsCheck ==
  [][\A p \in Callers :
       (call[p].pc = "awaitSecret" /\ call'[p].pc = "awaitCredentials")
       => IF call[p].username \in { Undefined, Str(<< >>) }
             \/ secretStorage \in { Undefined, Null }
          THEN call'[p].creds.kind = "throw"
          ELSE call'[p].creds = Return([username |-> call[p].username.s,
                                        secret |-> secretStorage.s])]_vars

\* C12's case: the read has succeeded with an empty secret.
C12_Witness ==
  \E p \in Callers :
    /\ secretStorage = Str(<< >>)
    /\ call[p].pc = "awaitCredentials"
    /\ call[p].creds = Return([username |-> << "a", "l" >>, secret |-> << >>])

(***************************************************************************)
(* httpRequest called by the registry client, with either throwOnFailure   *)
(***************************************************************************)

Urls == { << "u" >>, << "v" >> }

\* The statuses a response may carry, on both sides of 200, 300 and 401.
Statuses == { 199, 200, 204, 299, 300, 304, 400, 401, 403, 404, 500 }

Responses ==
  { [kind |-> "response", status |-> s, body |-> b] :
      s \in Statuses, b \in { TokenBody, EmptyBody } }
  \cup { [kind |-> "error", error |-> [name |-> "FetchError"]] }

\* httpRequest(url, request, throwOnFailure) is called and fetch settles.
HttpRequestCall(url, outcome, throwOnFailure) ==
  /\ hist.ops < MaxOps
  /\ lastOp' = Op("httpRequestCall",
                  [url |-> url, outcome |-> outcome,
                   throwOnFailure |-> throwOnFailure],
                  httpRequest(url, outcome, throwOnFailure))
  /\ hist' = [hist EXCEPT !.ops = @ + 1]
  /\ UNCHANGED << this, storageMemento, secretStorage, call >>

NextHttp ==
  \E url \in Urls, outcome \in Responses, throwOnFailure \in BOOLEAN :
    HttpRequestCall(url, outcome, throwOnFailure)

SpecHttp == Init /\ [][NextHttp]_vars

\* C13: given a response, httpRequest fails with UnauthorizedError exactly when
\* throwOnFailure is true and the status is 401; in every other case it returns
\* the status and succeeded, which is true exactly for 200 <= status < 300.
C13_HttpRequestOutcome ==
  (lastOp.op = "httpRequestCall" /\ lastOp.arg.outcome.kind = "response")
  => LET status == lastOp.arg.outcome.status
         r == lastOp.outcome
     IN  IF lastOp.arg.throwOnFailure /\ status = 401
         THEN r.kind = "throw" /\ r.error.name = "UnauthorizedError"
         ELSE /\ r.kind = "return"
              /\ r.value.status = status
              /\ r.value.succeeded = (status \in 200..299)

\* C13's case: a 401 with throwOnFailure false has been returned, not thrown.
C13_Witness ==
  /\ lastOp.op = "httpRequestCall"
  /\ lastOp.arg.outcome.kind = "response"
  /\ lastOp.arg.outcome.status = 401
  /\ ~lastOp.arg.throwOnFailure
  /\ lastOp.outcome.kind = "return"
  /\ ~lastOp.outcome.value.succeeded

(***************************************************************************)
(* fallback over header values of every shape                              *)
(***************************************************************************)

NextParse == \E header \in ParseHeaders : Fallback(header)

SpecParse == Init /\ [][NextParse]_vars

\* C17: for every malformed header value (quotes missing around a field, one
\* of realm, service and scope missing, a scheme other than Bearer, the text
\* Bearer realm=... only as the end of a longer scheme token or after another
\* challenge) fallback fails with the parse error naming the header, and OAuth
\* mode is entered only by well-formed headers.
C17_MalformedRefused ==
  /\ (lastOp.op = "fallback" /\ ParseSampleOf(lastOp.arg).kind # "valid")
       => /\ lastOp.outcome.kind = "throw"
          /\ lastOp.outcome.error.message
               = [template |-> "Unable to parse WWW-Authenticate header: \"{0}\"",
                  arg |-> lastOp.arg]
  /\ InOAuthMode
       => hist.lastOk # << >> /\ ParseSampleOf(hist.lastOk).kind = "valid"

\* C18: for every header Bearer realm="R", service="S", scope="C", whatever
\* the case of the scheme keyword and the whitespace after the commas, fallback
\* stores R and S as they are and C split at each single space, so that the
\* stored scopes joined by single spaces are C again.
C18_WellFormedStored ==
  (lastOp.op = "fallback" /\ ParseSampleOf(lastOp.arg).kind = "valid")
  => LET s == ParseSampleOf(lastOp.arg)
     IN  /\ lastOp.outcome = Return(Undefined)
         /\ this = [oAuthEndpoint |-> Str(s.realm), oAuthService |-> Str(s.service),
                    defaultScopes |-> Arr(s.scopes), _didFallback |-> TRUE]
         /\ Join(this.defaultScopes.a, << " " >>) = s.scope

\* C18's case: a header with a mixed-case scheme keyword, spaces after the
\* commas and two spaces running in its scope has been stored.
C18_Witness ==
  /\ lastOp.op = "fallback"
  /\ lastOp.outcome.kind = "return"
  /\ SubSeq(lastOp.arg, 1, 6) = << "b", "E", "a", "R", "e", "r" >>
  /\ this.defaultScopes = Arr(<< << "x" >>, << >>, << "z" >> >>)
  /\ this.oAuthEndpoint = Str(<< "r", "b" >>)

=============================================================================
